---------------------------- MODULE Spec2Model ----------------------------
(***************************************************************************)
(* A model of analysis.py, the Titanic data-wrangling and model-evaluation *)
(* script.  A data frame is a record                                       *)
(*     [columns |-> sequence of column names,                              *)
(*      rows    |-> sequence of rows, each a function column -> cell,      *)
(*      category|-> the set of columns whose dtype is 'category'].         *)
(* A cell of a column that can hold a missing value (Age, Fare, Embarked,  *)
(* Title, AgeGroup) is NaN (the empty tuple) or <<v>>.  Ages and fares are *)
(* held in halves (<<58>> is 29.0) so that the median of an even-sized     *)
(* group, the mean of its two middle values, is exact; the raw files hold  *)
(* whole numbers, that is even cells.                                      *)
(***************************************************************************)
EXTENDS Integers, Sequences, FiniteSets, TLC

VARIABLES
    raw_train_df,            \* line 339
    raw_test_df,             \* line 340
    train_df,                \* line 341
    test_df,                 \* line 342
    train_features,          \* line 344
    test_features,           \* line 346
    reduced_cols,            \* line 354
    train_reduced_features,  \* line 355
    test_reduced_features,   \* line 356
    submission,              \* line 330, the rows written by to_csv
    pc,                      \* the statement of the script that runs next
    \* the statistics of the last imputation
    guess_ages,              \* lines 130-133, the guess_age of each iteration
    freq_port,               \* line 146
    fare_median,             \* line 156, the value handed to fillna
    \* evaluate_models: its arguments, its locals and what it prints
    models,                  \* the names of the models map, in its order
    nfold,
    labels,
    model_i,                 \* the place in models of model_name, line 260
    fold,                    \* the number of the split of line 262
    total_score,             \* line 261, a fraction <<numerator, denominator>>
    model_scores,            \* line 258
    calls,                   \* the fit and score calls made on the models
    printed,                 \* the lines printed
    epc,                     \* the statement of evaluate_models that runs next
    first_run                \* what an earlier run of the script left behind

\* the variables of the script
mvars == <<raw_train_df, raw_test_df, train_df, test_df, train_features,
           test_features, reduced_cols, train_reduced_features,
           test_reduced_features, submission, pc, guess_ages, freq_port,
           fare_median>>

\* the variables of evaluate_models
evars == <<models, nfold, labels, model_i, fold, total_score, model_scores,
           calls, printed, epc>>

vars == <<mvars, evars, first_run>>

-----------------------------------------------------------------------------
(* Cells and frames *)

NaN == <<>>

isnull(v) == v = NaN

Range(s) == {s[i] : i \in DOMAIN s}

\* the columns whose cells can be missing, and a present value as their cell
Nullable == {"Age", "Fare", "Embarked", "Title", "AgeGroup"}

Cell(col, v) == IF col \in Nullable THEN <<v>> ELSE v

NoFrame == [columns |-> <<>>, rows |-> <<>>, category |-> {}]

\* df[col], the cells of one column in row order
Column(df, col) == [i \in DOMAIN df.rows |-> df.rows[i][col]]

\* Series.dropna()
dropna(s) == SelectSeq(s, LAMBDA v : ~isnull(v))

\* Series.unique(): the distinct cells in order of first appearance
RECURSIVE unique(_)
unique(s) ==
    IF s = <<>> THEN <<>>
    ELSE LET init == unique(SubSeq(s, 1, Len(s) - 1))
             last == s[Len(s)]
         IN  IF last \in Range(init) THEN init ELSE Append(init, last)

\* df[col] = cells: the column is replaced in place, or appended when new
SetColumn(df, col, cells) ==
    [df EXCEPT
        !.columns = IF col \in Range(df.columns) THEN df.columns
                    ELSE Append(df.columns, col),
        !.rows = [i \in DOMAIN df.rows |-> (col :> cells[i]) @@ df.rows[i]]]

\* df[col] = df[col].astype('category')
AsCategory(df, col) == [df EXCEPT !.category = @ \cup {col}]

\* the k-th smallest cell value of a non-empty sequence of non-missing cells
KthSmallest(s, k) ==
    CHOOSE v \in {c[1] : c \in Range(s)} :
        /\ Cardinality({i \in DOMAIN s : s[i][1] < v}) < k
        /\ Cardinality({i \in DOMAIN s : s[i][1] <= v}) >= k

\* Series.median() of a series without missing cells: NaN when it is empty,
\* the middle value, or the mean of the two middle values
median(s) ==
    LET n == Len(s)
    IN  IF n = 0 THEN NaN
        ELSE IF n % 2 = 1 THEN <<KthSmallest(s, (n + 1) \div 2)>>
        ELSE <<(KthSmallest(s, n \div 2) + KthSmallest(s, n \div 2 + 1)) \div 2>>

\* The sort order of the values a categorical column can hold: pandas sorts
\* the categories of astype('category') and the result of mode().
SortedValues(col) ==
    CASE col = "Pclass"   -> <<1, 2, 3>>
      [] col = "Sex"      -> <<"female", "male">>
      [] col = "Embarked" -> <<"C", "Q", "S">>
      [] col = "Title"    -> <<"Master", "Miss", "Mr", "Mrs", "Rare">>
      [] col = "AgeGroup" -> <<"adults (>16,<= 50)", "elderly (>50)",
                               "kids (<=16)">>

\* Series.mode() of a series without missing cells: the most frequent values,
\* sorted
mode(s, col) ==
    LET count(v) == Cardinality({i \in DOMAIN s : s[i] = <<v>>})
    IN  SelectSeq(SortedValues(col),
                  LAMBDA v : /\ count(v) > 0
                             /\ \A w \in Range(SortedValues(col)) :
                                    count(w) <= count(v))

-----------------------------------------------------------------------------
(* add_title *)

\* [A-Za-z], as far as the names of the input files go
Letters ==
    {"A", "B", "C", "D", "M", "O", "R", "S",
     "a", "e", "g", "i", "l", "o", "r", "s", "y"}

\* the characters s[i..j] joined into one string
RECURSIVE Join(_, _, _)
Join(s, i, j) == IF i > j THEN "" ELSE s[i] \o Join(s, i + 1, j)

\* str.extract('([A-Za-z]+)\.'): the leftmost run of letters that a period
\* follows, NaN when the name has none.  A name is its sequence of characters.
ExtractTitle(name) ==
    LET starts == {i \in DOMAIN name :
                     /\ name[i] \in Letters
                     /\ \E j \in i .. Len(name) - 1 :
                          /\ \A k \in i .. j : name[k] \in Letters
                          /\ name[j + 1] = "."}
    IN  IF starts = {} THEN NaN
        ELSE LET i == CHOOSE a \in starts : \A b \in starts : a <= b
                 j == CHOOSE e \in i .. Len(name) - 1 :
                          /\ \A k \in i .. e : name[k] \in Letters
                          /\ name[e + 1] = "."
             IN  <<Join(name, i, j)>>

RareTitles ==
    {"Lady", "Countess", "Capt", "Col", "Don", "Dr", "Major", "Rev", "Sir",
     "Jonkheer", "Dona"}

\* Series.replace(to_replace, value) on one cell
replace(v, to_replace, value) ==
    IF ~isnull(v) /\ v[1] \in to_replace THEN <<value>> ELSE v

NormalizeTitle(v) ==
    LET t1 == replace(v, RareTitles, "Rare")
        t2 == replace(t1, {"Mlle"}, "Miss")
        t3 == replace(t2, {"Ms"}, "Miss")
        t4 == replace(t3, {"Mme"}, "Mrs")
    IN  replace(t4, RareTitles, "Rare")

add_title(df) ==
    AsCategory(
        SetColumn(df, "Title",
                  [i \in DOMAIN df.rows |->
                       NormalizeTitle(ExtractTitle(df.rows[i]["Name"]))]),
        "Title")

-----------------------------------------------------------------------------
(* impute_age, impute_embarked, impute_fare *)

\* the median age of the [Sex, Pclass] group, whatever the title
GuessAgeBySexClass(src_df, sex, pclass, title) ==
    median(dropna(
        Column([src_df EXCEPT !.rows =
                    SelectSeq(src_df.rows,
                              LAMBDA r : /\ r["Sex"] = sex
                                         /\ r["Pclass"] = pclass)],
               "Age")))

\* src_df[(Sex == sex) & (Pclass == pclass) & (Title == title)]['Age']
\*     .dropna().median()
\* A comparison with a missing title is False in every row.
GuessAge(src_df, sex, pclass, title) ==
    median(dropna(
        Column([src_df EXCEPT !.rows =
                    SelectSeq(src_df.rows,
                              LAMBDA r : /\ r["Sex"] = sex
                                         /\ r["Pclass"] = pclass
                                         /\ ~isnull(title)
                                         /\ r["Title"] = title)],
               "Age")))

\* the assignment without the Age.isnull() mask
AssignAgeUnmasked(dst_df, sex, pclass, title, guess_age) ==
    [dst_df EXCEPT !.rows =
        [i \in DOMAIN dst_df.rows |->
            LET r == dst_df.rows[i]
            IN  IF /\ r["Sex"] = sex
                   /\ r["Pclass"] = pclass
                   /\ ~isnull(title)
                   /\ r["Title"] = title
                THEN [r EXCEPT !["Age"] = guess_age]
                ELSE r]]

\* dst_df.loc[Age.isnull() & (Sex == sex) & (Pclass == pclass)
\*            & (Title == title), 'Age'] = guess_age
AssignAge(dst_df, sex, pclass, title, guess_age) ==
    [dst_df EXCEPT !.rows =
        [i \in DOMAIN dst_df.rows |->
            LET r == dst_df.rows[i]
            IN  IF /\ isnull(r["Age"])
                   /\ r["Sex"] = sex
                   /\ r["Pclass"] = pclass
                   /\ ~isnull(title)
                   /\ r["Title"] = title
                THEN [r EXCEPT !["Age"] = guess_age]
                ELSE r]]

\* the three nested loops of impute_age, from iteration k of the
\* sequence of (sex, pclass, title) triples they go through
RECURSIVE ImputeAgeLoop(_, _, _, _)
ImputeAgeLoop(src_df, dst_df, triples, k) ==
    IF k > Len(triples) THEN dst_df
    ELSE LET t == triples[k]
         IN  ImputeAgeLoop(src_df,
                 AssignAge(dst_df, t[1], t[2], t[3],
                           GuessAge(src_df, t[1], t[2], t[3])),
                 triples, k + 1)

\* for sex in unique: for pclass in unique: for title in unique
LoopTriples(src_df) ==
    LET sexes   == unique(Column(src_df, "Sex"))
        classes == unique(Column(src_df, "Pclass"))
        titles  == unique(Column(src_df, "Title"))
        ns == Len(sexes)
        nc == Len(classes)
        nt == Len(titles)
    IN  [k \in 1 .. ns * nc * nt |->
            <<sexes[((k - 1) \div (nc * nt)) + 1],
              classes[(((k - 1) \div nt) % nc) + 1],
              titles[((k - 1) % nt) + 1]>>]

impute_age(src_df, dst_df) ==
    ImputeAgeLoop(src_df, dst_df, LoopTriples(src_df), 1)

\* the guess_age of every iteration of the loops
GuessAges(src_df) ==
    [k \in DOMAIN LoopTriples(src_df) |->
        LET t == LoopTriples(src_df)[k]
        IN  [sex |-> t[1], pclass |-> t[2], title |-> t[3],
             age |-> GuessAge(src_df, t[1], t[2], t[3])]]

\* Series.fillna(value): a missing value fills nothing
fillna(df, col, value) ==
    [df EXCEPT !.rows =
        [i \in DOMAIN df.rows |->
            IF isnull(df.rows[i][col]) /\ ~isnull(value)
            THEN [df.rows[i] EXCEPT ![col] = value]
            ELSE df.rows[i]]]

\* src_df.Embarked.dropna().mode(): indexing it with [0] raises when the
\* source has no port at all
PortModes(src_df) ==
    LET ports == dropna(Column(src_df, "Embarked"))
    IN  mode(ports, "Embarked")

impute_embarked(src_df, dst_df) ==
    fillna(dst_df, "Embarked", <<PortModes(src_df)[1]>>)

\* src_df['Fare'].dropna().median()
FareMedian(src_df) == median(dropna(Column(src_df, "Fare")))

\* the median fare of the frame that is filled
impute_fare_from_target(src_df, dst_df) ==
    fillna(dst_df, "Fare", FareMedian(dst_df))

impute_fare(src_df, dst_df) == fillna(dst_df, "Fare", FareMedian(src_df))

-----------------------------------------------------------------------------
(* add_age_group, add_is_alone, the tail of update_features *)

KidsMaxAge == 16
AdultsMaxAge == 50

\* df.loc[mask, col] = value: the rows of the mask get the value; a column
\* that does not exist yet is created, missing in the other rows
SetWhere(df, col, mask, value) ==
    SetColumn(df, col,
              [i \in DOMAIN df.rows |->
                   IF mask[i] THEN value
                   ELSE IF col \in Range(df.columns) THEN df.rows[i][col]
                   ELSE NaN])

\* A comparison with a missing age is False.
add_age_group(df) ==
    LET age(i)  == df.rows[i]["Age"]
        kids    == [i \in DOMAIN df.rows |->
                       ~isnull(age(i)) /\ age(i)[1] <= 2 * KidsMaxAge]
        adults  == [i \in DOMAIN df.rows |->
                       /\ ~isnull(age(i))
                       /\ age(i)[1] > 2 * KidsMaxAge
                       /\ age(i)[1] <= 2 * AdultsMaxAge]
        elderly == [i \in DOMAIN df.rows |->
                       ~isnull(age(i)) /\ age(i)[1] > 2 * AdultsMaxAge]
        d1 == SetWhere(df, "AgeGroup", kids, <<"kids (<=16)">>)
        d2 == SetWhere(d1, "AgeGroup", adults, <<"adults (>16,<= 50)">>)
        d3 == SetWhere(d2, "AgeGroup", elderly, <<"elderly (>50)">>)
    IN  AsCategory(d3, "AgeGroup")

add_is_alone(df) ==
    LET family_size(r) == r["SibSp"] + r["Parch"] + 1
        d1 == SetColumn(df, "IsAlone", [i \in DOMAIN df.rows |-> 0])
    IN  [d1 EXCEPT !.rows =
            [i \in DOMAIN d1.rows |->
                IF family_size(d1.rows[i]) = 1
                THEN [d1.rows[i] EXCEPT !["IsAlone"] = 1]
                ELSE d1.rows[i]]]

\* lines 200-202
CategoryCasts(df) ==
    AsCategory(AsCategory(AsCategory(df, "Pclass"), "Embarked"), "Sex")

SelectedColumns ==
    <<"Age", "AgeGroup", "Embarked", "Fare", "IsAlone", "Pclass", "Sex",
      "Title">>

\* df[[...]].copy(): the listed columns, in the order listed
Project(df, cols) ==
    [columns  |-> cols,
     rows     |-> [i \in DOMAIN df.rows |->
                      [c \in Range(cols) |-> df.rows[i][c]]],
     category |-> df.category \cap Range(cols)]

-----------------------------------------------------------------------------
(* onehot_categories *)

\* the categories of a categorical column: its observed values, sorted
Categories(df, col) ==
    SelectSeq(SortedValues(col),
              LAMBDA v : \E i \in DOMAIN df.rows :
                  df.rows[i][col] = Cell(col, v))

\* a cell of a categorical column holds the level
HasLevel(cell, col, level) == cell = Cell(col, level)

\* the name get_dummies gives the indicator of a level: <column>_<level>
DummyName(col, level) ==
    col \o "_" \o (IF col = "Pclass" THEN ToString(level) ELSE level)

\* get_dummies(..., drop_first=True) keeps every category but the first
KeptLevels(levels) == SubSeq(levels, 2, Len(levels))

\* the indicator columns of one categorical column: <<column, level>> pairs
DummiesOf(df, col) ==
    LET kept == KeptLevels(Categories(df, col))
    IN  [k \in DOMAIN kept |-> <<col, kept[k]>>]

RECURSIVE Flatten(_)
Flatten(ss) == IF ss = <<>> THEN <<>> ELSE Head(ss) \o Flatten(Tail(ss))

\* df.select_dtypes(['category']).columns
CatCols(df) == SelectSeq(df.columns, LAMBDA c : c \in df.category)

onehot_categories(df) ==
    LET cat_cols == CatCols(df)
        dummies  == Flatten([k \in DOMAIN cat_cols |->
                                 DummiesOf(df, cat_cols[k])])
        kept     == SelectSeq(df.columns, LAMBDA c : c \notin df.category)
        names    == [k \in DOMAIN dummies |->
                        DummyName(dummies[k][1], dummies[k][2])]
    IN  [columns  |-> kept \o names,
         rows     |-> [i \in DOMAIN df.rows |->
                         [c \in Range(kept) \cup Range(names) |->
                            IF c \in Range(kept) THEN df.rows[i][c]
                            ELSE LET d == dummies[CHOOSE k \in DOMAIN names :
                                                     names[k] = c]
                                 IN  IF HasLevel(df.rows[i][d[1]], d[1], d[2])
                                     THEN 1 ELSE 0]],
         category |-> {}]

-----------------------------------------------------------------------------
(* Feature selection and the final model.  The classifiers are scikit-learn *)
(* objects, used through fit, get_support and predict; they are stood in    *)
(* for by deterministic functions of their arguments (random_state is       *)
(* fixed), which refuse a matrix that holds a missing value as scikit-learn *)
(* does.                                                                    *)

HasNaN(X) ==
    \E i \in DOMAIN X.rows :
        \E c \in Range(X.columns) \cap Nullable : isnull(X.rows[i][c])

\* a cell of a feature matrix as a number
Num(X, i, c) ==
    IF c \in Nullable THEN X.rows[i][c][1] ELSE X.rows[i][c]

RECURSIVE SumOver(_, _)
SumOver(f, S) ==
    IF S = {} THEN 0
    ELSE LET x == CHOOSE y \in S : TRUE IN f[x] + SumOver(f, S \ {x})

Abs(n) == IF n < 0 THEN -n ELSE n

\* clf.feature_importances_: how far the column's mean among the survivors
\* is from its mean among the others (scaled to stay whole)
Importance(X, y, c) ==
    LET ones  == {i \in DOMAIN X.rows : y[i] = 1}
        zeros == {i \in DOMAIN X.rows : y[i] = 0}
        col   == [i \in DOMAIN X.rows |-> Num(X, i, c)]
    IN  Abs(Cardinality(zeros) * SumOver(col, ones)
            - Cardinality(ones) * SumOver(col, zeros))

\* SelectFromModel(clf, prefit=True).get_support(): the columns whose
\* importance reaches the mean importance
get_support(X, y) ==
    LET imp == [k \in DOMAIN X.columns |-> Importance(X, y, X.columns[k])]
    IN  [k \in DOMAIN X.columns |->
            Len(X.columns) * imp[k] >= SumOver(imp, DOMAIN imp)]

\* train_features.columns[mask]
MaskedColumns(X, mask) ==
    LET idx == SelectSeq([k \in DOMAIN X.columns |-> k], LAMBDA k : mask[k])
    IN  [k \in DOMAIN idx |-> X.columns[idx[k]]]

\* model.fit(X, y) followed by model.predict(T) for one row of T: the label
\* of the training row nearest to it, the first of them on a tie
Distance(X, i, T, j) ==
    SumOver([c \in Range(X.columns) |-> Abs(Num(X, i, c) - Num(T, j, c))],
            Range(X.columns))

predict(X, y, T, j) ==
    LET best == CHOOSE i \in DOMAIN X.rows :
                    \A k \in DOMAIN X.rows :
                        \/ Distance(X, i, T, j) < Distance(X, k, T, j)
                        \/ Distance(X, i, T, j) = Distance(X, k, T, j) /\ i <= k
    IN  y[best]

\* the labels paired with the identifiers in reverse
SubmissionRowsReversed(X, y, T, passenger_ids) ==
    [j \in DOMAIN passenger_ids |->
        [PassengerId |-> passenger_ids[Len(passenger_ids) + 1 - j],
         Survived |-> predict(X, y, T, j)]]

\* write_submission up to to_csv: the frame built from the identifiers and
\* the predicted labels, row by row
SubmissionRows(X, y, T, passenger_ids) ==
    [j \in DOMAIN passenger_ids |->
        [PassengerId |-> passenger_ids[j], Survived |-> predict(X, y, T, j)]]

-----------------------------------------------------------------------------
(* The script, statement by statement *)

Calls == {"train", "test"}

\* the frame that dst_df names in each call of update_features
Dst(c) == IF c = "train" THEN train_df ELSE test_df

Features(c) == IF c = "train" THEN train_features ELSE test_features

SetDst(c, df) ==
    IF c = "train" THEN train_df' = df /\ UNCHANGED test_df
    ELSE test_df' = df /\ UNCHANGED train_df

SetFeatures(c, df) ==
    IF c = "train" THEN train_features' = df /\ UNCHANGED test_features
    ELSE test_features' = df /\ UNCHANGED train_features

selection == <<reduced_cols, train_reduced_features, test_reduced_features>>

stats == <<guess_ages, freq_port, fare_median>>

\* line 193
AddTitleSrc ==
    \E c \in Calls :
        /\ pc = <<c, "add_title_src">>
        /\ raw_train_df' = add_title(raw_train_df)
        /\ pc' = <<c, "add_title_dst">>
        /\ UNCHANGED <<raw_test_df, train_df, test_df, train_features,
                       test_features, selection, submission>>
        /\ UNCHANGED <<stats, evars, first_run>>

\* line 194
AddTitleDst ==
    \E c \in Calls :
        /\ pc = <<c, "add_title_dst">>
        /\ SetDst(c, add_title(Dst(c)))
        /\ pc' = <<c, "impute_age">>
        /\ UNCHANGED <<raw_train_df, raw_test_df, train_features,
                       test_features, selection, submission>>
        /\ UNCHANGED <<stats, evars, first_run>>

\* line 195
ImputeAge ==
    \E c \in Calls :
        /\ pc = <<c, "impute_age">>
        /\ SetDst(c, impute_age(raw_train_df, Dst(c)))
        /\ guess_ages' = GuessAges(raw_train_df)
        /\ pc' = <<c, "add_age_group">>
        /\ UNCHANGED <<raw_train_df, raw_test_df, train_features,
                       test_features, selection, submission, freq_port,
                       fare_median>>
        /\ UNCHANGED <<evars, first_run>>

\* line 196
AddAgeGroup ==
    \E c \in Calls :
        /\ pc = <<c, "add_age_group">>
        /\ SetDst(c, add_age_group(Dst(c)))
        /\ pc' = <<c, "impute_embarked">>
        /\ UNCHANGED <<raw_train_df, raw_test_df, train_features,
                       test_features, selection, submission>>
        /\ UNCHANGED <<stats, evars, first_run>>

\* line 197; mode()[0] raises when the source holds no port
ImputeEmbarked ==
    \E c \in Calls :
        /\ pc = <<c, "impute_embarked">>
        /\ IF PortModes(raw_train_df) = <<>>
           THEN /\ pc' = <<c, "raised">>
                /\ UNCHANGED <<train_df, test_df, freq_port>>
           ELSE /\ SetDst(c, impute_embarked(raw_train_df, Dst(c)))
                /\ freq_port' = <<PortModes(raw_train_df)[1]>>
                /\ pc' = <<c, "impute_fare">>
        /\ UNCHANGED <<raw_train_df, raw_test_df, train_features,
                       test_features, selection, submission, guess_ages,
                       fare_median>>
        /\ UNCHANGED <<evars, first_run>>

\* line 198
ImputeFare ==
    \E c \in Calls :
        /\ pc = <<c, "impute_fare">>
        /\ SetDst(c, impute_fare(raw_train_df, Dst(c)))
        /\ fare_median' = FareMedian(raw_train_df)
        /\ pc' = <<c, "add_is_alone">>
        /\ UNCHANGED <<raw_train_df, raw_test_df, train_features,
                       test_features, selection, submission, guess_ages,
                       freq_port>>
        /\ UNCHANGED <<evars, first_run>>

\* line 199
AddIsAlone ==
    \E c \in Calls :
        /\ pc = <<c, "add_is_alone">>
        /\ SetDst(c, add_is_alone(Dst(c)))
        /\ pc' = <<c, "select">>
        /\ UNCHANGED <<raw_train_df, raw_test_df, train_features,
                       test_features, selection, submission>>
        /\ UNCHANGED <<stats, evars, first_run>>

\* lines 200-215: the casts change the caller's frame, the selection is a
\* copy, returned to main as the argument of onehot_categories
SelectFeatures ==
    \E c \in Calls :
        /\ pc = <<c, "select">>
        /\ SetDst(c, CategoryCasts(Dst(c)))
        /\ SetFeatures(c, Project(CategoryCasts(Dst(c)), SelectedColumns))
        /\ pc' = <<c, "onehot">>
        /\ UNCHANGED <<raw_train_df, raw_test_df, selection, submission>>
        /\ UNCHANGED <<stats, evars, first_run>>

\* lines 344-347
OnehotCategories ==
    \E c \in Calls :
        /\ pc = <<c, "onehot">>
        /\ SetFeatures(c, onehot_categories(Features(c)))
        /\ pc' = IF c = "train" THEN <<"test", "add_title_src">>
                 ELSE <<"main", "feature_selection">>
        /\ UNCHANGED <<raw_train_df, raw_test_df, train_df, test_df,
                       selection, submission>>
        /\ UNCHANGED <<stats, evars, first_run>>

\* line 348
train_labels == Column(raw_train_df, "Survived")

\* lines 351-355; fit raises on a missing value
FeatureSelection ==
    /\ pc = <<"main", "feature_selection">>
    /\ IF HasNaN(train_features)
       THEN /\ pc' = <<"main", "raised">>
            /\ UNCHANGED <<reduced_cols, train_reduced_features>>
       ELSE /\ reduced_cols' =
                   MaskedColumns(train_features,
                                 get_support(train_features, train_labels))
            /\ train_reduced_features' = Project(train_features, reduced_cols')
            /\ pc' = <<"main", "project_test">>
    /\ UNCHANGED <<raw_train_df, raw_test_df, train_df, test_df,
                   train_features, test_features, test_reduced_features,
                   submission>>
    /\ UNCHANGED <<stats, evars, first_run>>

\* line 356; indexing raises on a column the frame does not have
ProjectTest ==
    /\ pc = <<"main", "project_test">>
    /\ IF Range(reduced_cols) \subseteq Range(test_features.columns)
       THEN /\ test_reduced_features' = Project(test_features, reduced_cols)
            /\ pc' = <<"main", "evaluate_models">>
       ELSE /\ pc' = <<"main", "raised">>
            /\ UNCHANGED test_reduced_features
    /\ UNCHANGED <<raw_train_df, raw_test_df, train_df, test_df,
                   train_features, test_features, reduced_cols,
                   train_reduced_features, submission>>
    /\ UNCHANGED <<stats, evars, first_run>>

\* line 373: the call returns, or an exception of a fit or of the split
\* leaves it and ends the script
EvaluateModelsCall ==
    /\ pc = <<"main", "evaluate_models">>
    /\ \E returns \in BOOLEAN :
           pc' = IF returns THEN <<"main", "write_submission">>
                 ELSE <<"main", "raised">>
    /\ UNCHANGED <<raw_train_df, raw_test_df, train_df, test_df,
                   train_features, test_features, selection, submission>>
    /\ UNCHANGED <<stats, evars, first_run>>

\* lines 376-378; predict raises on a missing value
WriteSubmission ==
    /\ pc = <<"main", "write_submission">>
    /\ IF HasNaN(test_reduced_features)
       THEN /\ pc' = <<"main", "raised">>
            /\ UNCHANGED submission
       ELSE /\ submission' =
                   SubmissionRows(train_reduced_features, train_labels,
                                  test_reduced_features,
                                  Column(raw_test_df, "PassengerId"))
            /\ pc' = <<"main", "done">>
    /\ UNCHANGED <<raw_train_df, raw_test_df, train_df, test_df,
                   train_features, test_features, selection>>
    /\ UNCHANGED <<stats, evars, first_run>>

Next ==
    \/ AddTitleSrc
    \/ AddTitleDst
    \/ ImputeAge
    \/ AddAgeGroup
    \/ ImputeEmbarked
    \/ ImputeFare
    \/ AddIsAlone
    \/ SelectFeatures
    \/ OnehotCategories
    \/ FeatureSelection
    \/ ProjectTest
    \/ EvaluateModelsCall
    \/ WriteSubmission

-----------------------------------------------------------------------------
(* evaluate_models.  An accuracy is a fraction <<numerator, denominator>>. *)

FracAdd(a, b) == <<a[1] * b[2] + b[1] * a[2], a[2] * b[2]>>

FracDiv(a, n) == <<a[1], a[2] * n>>

FracLess(a, b) == a[1] * b[2] < b[1] * a[2]

FracEq(a, b) == a[1] * b[2] = b[1] * a[2]

\* the samples of a class, in row order
ClassRows(y, cls) == SelectSeq([i \in DOMAIN y |-> i], LAMBDA i : y[i] = cls)

\* KFold without shuffling over m positions: position r (from 0) falls in one
\* of k consecutive chunks, the first m % k of them one longer
ChunkOf(r, m, k) ==
    LET small == m \div k
        big   == m % k
    IN  IF r < big * (small + 1) THEN r \div (small + 1)
        ELSE big + (r - big * (small + 1)) \div small

\* StratifiedKFold(n_splits=k).split(features, y): the test rows of the
\* split number f (from 1); each class is dealt out on its own
TestIndex(y, k, f) ==
    {i \in DOMAIN y :
        LET rows == ClassRows(y, y[i])
            r    == CHOOSE j \in DOMAIN rows : rows[j] = i
            m    == IF Len(rows) > k THEN Len(rows) ELSE k
        IN  ChunkOf(r - 1, m, k) = f - 1}

TrainIndex(y, k, f) == DOMAIN y \ TestIndex(y, k, f)

\* the split raises when no class has n_splits members
SplitRaises(y, k) ==
    \A cls \in Range(y) : Len(ClassRows(y, cls)) < k

ModelName == models[model_i]

evalargs == <<models, nfold, labels>>

\* line 258
EvalStart ==
    /\ epc = "start"
    /\ model_scores' = <<>>
    /\ model_i' = 0
    /\ epc' = "next_model"
    /\ UNCHANGED <<evalargs, fold, total_score, calls, printed>>
    /\ UNCHANGED <<mvars, first_run>>

\* the loop with total_score set to 0 before it, not in it
NextModelNoReset ==
    /\ epc = "next_model"
    /\ IF model_i < Len(models)
       THEN /\ model_i' = model_i + 1
            /\ fold' = 0
            /\ epc' = "next_fold"
       ELSE /\ epc' = "report"
            /\ UNCHANGED <<model_i, fold>>
    /\ UNCHANGED <<evalargs, total_score, model_scores, calls, printed>>
    /\ UNCHANGED <<mvars, first_run>>

\* lines 260-261: the next model of the map, or the end of the loop
NextModel ==
    /\ epc = "next_model"
    /\ IF model_i < Len(models)
       THEN /\ model_i' = model_i + 1
            /\ total_score' = <<0, 1>>
            /\ fold' = 0
            /\ epc' = "next_fold"
       ELSE /\ epc' = "report"
            /\ UNCHANGED <<model_i, total_score, fold>>
    /\ UNCHANGED <<evalargs, model_scores, calls, printed>>
    /\ UNCHANGED <<mvars, first_run>>

\* line 262: the next split, or the end of the inner loop
NextFold ==
    /\ epc = "next_fold"
    /\ IF fold = 0 /\ SplitRaises(labels, nfold)
       THEN epc' = "raised" /\ UNCHANGED fold
       ELSE IF fold < nfold
       THEN fold' = fold + 1 /\ epc' = "fit"
       ELSE epc' = "record" /\ UNCHANGED fold
    /\ UNCHANGED <<evalargs, model_i, total_score, model_scores, calls,
                   printed>>
    /\ UNCHANGED <<mvars, first_run>>

\* lines 263-267: fit on the training rows of the split; fit returns or
\* raises, and nothing in evaluate_models catches an exception
Fit ==
    /\ epc = "fit"
    /\ \E returns \in BOOLEAN :
          /\ calls' = Append(calls,
                 [op |-> "fit", model |-> ModelName,
                  rows |-> TrainIndex(labels, nfold, fold),
                  raised |-> ~returns])
          /\ epc' = IF returns THEN "score" ELSE "raised"
    /\ UNCHANGED <<evalargs, model_i, fold, total_score, model_scores,
                   printed>>
    /\ UNCHANGED <<mvars, first_run>>

\* lines 268-270: score on the test rows of the split; the accuracy is the
\* share of them the model labels right
Score ==
    /\ epc = "score"
    /\ \E right \in 0 .. Cardinality(TestIndex(labels, nfold, fold)) :
          LET cur_score ==
                  <<right, Cardinality(TestIndex(labels, nfold, fold))>>
          IN  /\ calls' = Append(calls,
                     [op |-> "score", model |-> ModelName,
                      rows |-> TestIndex(labels, nfold, fold),
                      raised |-> FALSE])
              /\ total_score' = FracAdd(total_score, cur_score)
              /\ printed' = Append(printed,
                     [line |-> "fold", model |-> ModelName,
                      score |-> cur_score])
    /\ epc' = "next_fold"
    /\ UNCHANGED <<evalargs, model_i, fold, model_scores>>
    /\ UNCHANGED <<mvars, first_run>>

\* line 271
Record ==
    /\ epc = "record"
    /\ model_scores' =
           Append(model_scores,
                  [model |-> ModelName, score |-> FracDiv(total_score, nfold)])
    /\ epc' = "next_model"
    /\ UNCHANGED <<evalargs, model_i, fold, total_score, calls, printed>>
    /\ UNCHANGED <<mvars, first_run>>

\* sorted(model_scores, key=model_scores.get, reverse=True): by descending
\* score, the models of equal score in the order of the map
desc_score_models(scores) ==
    LET place(k) ==
            1 + Cardinality({j \in DOMAIN scores :
                    \/ FracLess(scores[k].score, scores[j].score)
                    \/ FracEq(scores[k].score, scores[j].score) /\ j < k})
    IN  [p \in DOMAIN scores |->
            scores[CHOOSE k \in DOMAIN scores : place(k) = p]]

\* lines 273-275
Report ==
    /\ epc = "report"
    /\ printed' = printed \o
           [p \in DOMAIN model_scores |->
               [line  |-> "mean",
                model |-> desc_score_models(model_scores)[p].model,
                score |-> desc_score_models(model_scores)[p].score]]
    /\ epc' = "done"
    /\ UNCHANGED <<evalargs, model_i, fold, total_score, model_scores, calls>>
    /\ UNCHANGED <<mvars, first_run>>

NextEval ==
    \/ EvalStart
    \/ NextModel
    \/ NextFold
    \/ Fit
    \/ Score
    \/ Record
    \/ Report

-----------------------------------------------------------------------------
(* The input files *)

MaxTrain == 2
MaxTest == 2

NameMr   == <<"R", "a", "y", ",", " ", "M", "r", ".", " ", "O">>
NameMlle == <<"S", "a", "g", "e", ",", " ", "M", "l", "l", "e", ".", " ", "A">>
NameMiss == <<"S", "a", "g", "e", ",", " ", "M", "i", "s", "s", ".", " ", "B">>
NameMrs  == <<"S", "a", "g", "e", ",", " ", "M", "r", "s", ".", " ", "B">>
NameDr   == <<"M", "o", "o", "r", ",", " ", "D", "r", ".", " ", "C">>
NameBare == <<"M", "o", "o", "r", ",", " ", "D">>

Passenger(pclass, name, sex, age, sibsp, parch, fare, embarked) ==
    [Pclass |-> pclass, Name |-> name, Sex |-> sex, Age |-> age,
     SibSp |-> sibsp, Parch |-> parch, Fare |-> fare, Embarked |-> embarked]

\* the rows a training file is drawn from, each with its label
TrainPassengers ==
    {[Survived |-> 0] @@ Passenger(3, NameMr, "male", <<44>>, 1, 0, <<14>>, <<"S">>),
     [Survived |-> 0] @@ Passenger(3, NameMr, "male", <<60>>, 0, 0, <<16>>, <<"S">>),
     [Survived |-> 1] @@ Passenger(3, NameMr, "male", NaN, 0, 0, <<16>>, NaN),
     [Survived |-> 1] @@ Passenger(1, NameMlle, "female", <<120>>, 0, 1, <<160>>, <<"C">>),
     [Survived |-> 1] @@ Passenger(1, NameMrs, "female", <<28>>, 0, 0, <<60>>, <<"Q">>)}

\* the rows an evaluation file is drawn from
TestPassengers ==
    {Passenger(3, NameMr, "male", NaN, 0, 0, NaN, <<"S">>),
     Passenger(1, NameMiss, "female", NaN, 1, 1, <<60>>, <<"C">>),
     Passenger(1, NameDr, "male", NaN, 0, 0, <<100>>, <<"Q">>),
     Passenger(3, NameBare, "male", <<30>>, 2, 0, <<14>>, NaN)}

\* the files of 1 .. n rows over S; a file lists a passenger once
SeqsUpTo(S, n) ==
    UNION {{f \in [1 .. k -> S] :
               \A i, j \in 1 .. k : f[i] = f[j] => i = j} : k \in 1 .. n}

TrainColumns ==
    <<"PassengerId", "Survived", "Pclass", "Name", "Sex", "Age", "SibSp",
      "Parch", "Fare", "Embarked">>

TestColumns ==
    <<"PassengerId", "Pclass", "Name", "Sex", "Age", "SibSp", "Parch",
      "Fare", "Embarked">>

\* pd.read_csv: a frame of the file's rows; the identifiers are unique
ReadCsv(columns, passengers, ids) ==
    [columns  |-> columns,
     rows     |-> [i \in DOMAIN passengers |->
                      [PassengerId |-> ids[i]] @@ passengers[i]],
     category |-> {}]

\* the identifiers of an evaluation file of n rows that follows a training
\* file of m rows; the file lists them counting down
TestIds(m, n) == [i \in 1 .. n |-> m + n + 1 - i]

\* evaluate_models has not been called
EvalIdle ==
    /\ models = <<>>
    /\ nfold = 0
    /\ labels = <<>>
    /\ model_i = 0
    /\ fold = 0
    /\ total_score = <<0, 1>>
    /\ model_scores = <<>>
    /\ calls = <<>>
    /\ printed = <<>>
    /\ epc = "idle"

\* lines 339-342
InitFrom(trains, tests) ==
    /\ \E tr \in trains, te \in tests :
           /\ raw_train_df = ReadCsv(TrainColumns, tr, [i \in DOMAIN tr |-> i])
           /\ raw_test_df = ReadCsv(TestColumns, te, TestIds(Len(tr), Len(te)))
    /\ train_df = raw_train_df
    /\ test_df = raw_test_df
    /\ train_features = NoFrame
    /\ test_features = NoFrame
    /\ reduced_cols = <<>>
    /\ train_reduced_features = NoFrame
    /\ test_reduced_features = NoFrame
    /\ submission = <<>>
    /\ pc = <<"train", "add_title_src">>
    /\ guess_ages = <<>>
    /\ freq_port = NaN
    /\ fare_median = NaN
    /\ EvalIdle

\* no run came before this one
NoRun == [ended |-> FALSE]

Init ==
    /\ InitFrom(SeqsUpTo(TrainPassengers, MaxTrain),
                SeqsUpTo(TestPassengers, MaxTest))
    /\ first_run = NoRun

Spec == Init /\ [][Next]_vars

-----------------------------------------------------------------------------
(* Properties of the imputation *)

DstNext(c) == IF c = "train" THEN train_df' ELSE test_df'

\* update_features has just returned from call c
Returned(c) == pc = <<c, "onehot">>

\* C1: after update_features has run on a target, no record of the target
\* has a missing Age, a missing Fare or a missing Embarked value.
C1_NoMissingAfterUpdate ==
    \A c \in Calls :
        Returned(c) =>
            \A i \in DOMAIN Dst(c).rows :
                \A col \in {"Age", "Fare", "Embarked"} :
                    ~isnull(Dst(c).rows[i][col])

\* C3: update_features leaves the reference dataset as it was: no column is
\* added or removed and no value changes.
C3_ReferenceReadOnly == [][raw_train_df' = raw_train_df]_vars

\* the (sex, class, title) of a row that has a title
HasKey(r) == ~isnull(r["Title"])

SameKey(r, q) ==
    /\ HasKey(r) /\ HasKey(q)
    /\ r["Sex"] = q["Sex"]
    /\ r["Pclass"] = q["Pclass"]
    /\ r["Title"] = q["Title"]

\* the median of the non-missing ages of the reference rows with the key of
\* row r
MedianAgeOfGroup(ref, r) ==
    median(dropna(Column(
        [ref EXCEPT !.rows = SelectSeq(ref.rows, LAMBDA q : SameKey(q, r))],
        "Age")))

C6_PresentAgesKept ==
    [][\A c \in Calls :
          pc = <<c, "impute_age">> =>
              /\ DstNext(c).columns = Dst(c).columns
              /\ DOMAIN DstNext(c).rows = DOMAIN Dst(c).rows
              /\ \A i \in DOMAIN Dst(c).rows :
                    /\ ~isnull(Dst(c).rows[i]["Age"]) =>
                           DstNext(c).rows[i]["Age"] = Dst(c).rows[i]["Age"]
                    /\ \A col \in Range(Dst(c).columns) \ {"Age"} :
                           DstNext(c).rows[i][col] = Dst(c).rows[i][col]]_vars

\* impute_age has run on an evaluation file that holds a record with an age,
\* in a group the reference has ages for, and a record it gave an age to
C6_Witness ==
    /\ pc = <<"test", "add_age_group">>
    /\ \E i, j \in DOMAIN test_df.rows :
          /\ ~isnull(raw_test_df.rows[i]["Age"])
          /\ test_df.rows[i]["Age"] = raw_test_df.rows[i]["Age"]
          /\ isnull(raw_test_df.rows[j]["Age"])
          /\ ~isnull(test_df.rows[j]["Age"])

-----------------------------------------------------------------------------
(* Properties of the encoding *)

\* onehot_categories has returned the feature matrix of call c
Encoded(c) ==
    \/ c = "train" /\ pc[1] \in {"test", "main"}
    \/ c = "test" /\ pc[1] = "main"

BothEncoded == Encoded("train") /\ Encoded("test")

\* line 356 has run
Selected ==
    pc \in {<<"main", "evaluate_models">>, <<"main", "write_submission">>,
            <<"main", "done">>}

\* C2: the training and the evaluation feature matrix have the same column
\* names in the same order, after one-hot encoding and after feature
\* selection.
C2_SameColumns ==
    /\ BothEncoded => train_features.columns = test_features.columns
    /\ Selected =>
           train_reduced_features.columns = test_reduced_features.columns

CategoricalColumns == {"AgeGroup", "Embarked", "Pclass", "Sex", "Title"}

\* the levels of a column observed in the cleaned frame of call c
ObservedLevels(c, col) ==
    {v \in Range(SortedValues(col)) :
        \E i \in DOMAIN Dst(c).rows : Dst(c).rows[i][col] = Cell(col, v)}

\* the indicator columns the feature matrix of call c holds for a column
IndicatorsOf(c, col) ==
    {name \in Range(Features(c).columns) :
        \E v \in Range(SortedValues(col)) : name = DummyName(col, v)}

\* the shape of the indicators of a column in the feature matrix of call c:
\* N - 1 of them for N observed levels, the column itself gone, and in every
\* record the indicators and the implied indicator of the dropped level
\* (1 exactly when they are all 0) sum to 1
IndicatorShape(c, col) ==
    LET N   == Cardinality(ObservedLevels(c, col))
        ind == IndicatorsOf(c, col)
    IN  /\ Cardinality(ind) = N - 1
        /\ col \notin Range(Features(c).columns)
        /\ \A i \in DOMAIN Features(c).rows :
              /\ \A name \in ind : Features(c).rows[i][name] \in {0, 1}
              /\ SumOver([name \in ind |-> Features(c).rows[i][name]], ind)
                 + (IF \A name \in ind : Features(c).rows[i][name] = 0
                    THEN 1 ELSE 0) = 1

\* a record whose indicators of a column are all 0 has the dropped level,
\* the first of the column's categories
AllZeroIsReference(c, col) ==
    \A i \in DOMAIN Features(c).rows :
        (\A name \in IndicatorsOf(c, col) : Features(c).rows[i][name] = 0)
        => /\ Categories(Dst(c), col) # <<>>
           /\ Dst(c).rows[i][col] = Cell(col, Head(Categories(Dst(c), col)))

\* C10: onehot_categories gives a categorical column with N observed levels
\* exactly N - 1 indicator columns and removes the column itself; in every
\* record the indicators and the implied indicator of the dropped level sum
\* to 1, that is at most one indicator is 1, and a record whose indicators
\* are all 0 has the dropped level.
C10_OneHotShape ==
    \A c \in Calls :
        Encoded(c) =>
            \A col \in CategoricalColumns :
                IndicatorShape(c, col) /\ AllZeroIsReference(c, col)

-----------------------------------------------------------------------------
(* Properties of the submission *)

\* C8: write_submission writes one row per evaluation record, in the order
\* of the evaluation file; row i holds the identifier of record i and the
\* label the fitted model predicts from row i of the evaluation matrix, which
\* is the row of record i.
C8_SubmissionPairsRows ==
    pc = <<"main", "done">> =>
        /\ Len(submission) = Len(raw_test_df.rows)
        /\ Len(test_reduced_features.rows) = Len(raw_test_df.rows)
        /\ \A i \in DOMAIN raw_test_df.rows :
              /\ submission[i].PassengerId = raw_test_df.rows[i]["PassengerId"]
              /\ test_df.rows[i]["PassengerId"] =
                     raw_test_df.rows[i]["PassengerId"]
              /\ submission[i].Survived =
                     predict(train_reduced_features, train_labels,
                             test_reduced_features, i)
              /\ \A col \in Range(reduced_cols) \cap {"Fare", "IsAlone"} :
                     test_reduced_features.rows[i][col] = test_df.rows[i][col]

\* a submission of two rows whose labels differ
C8_Witness ==
    /\ pc = <<"main", "done">>
    /\ Len(submission) = 2
    /\ submission[1].Survived # submission[2].Survived
    /\ submission[1].PassengerId > submission[2].PassengerId

-----------------------------------------------------------------------------
(* The script run twice on one training file *)

\* the rows the training file of the two runs is drawn from
TwoRunTrainPassengers ==
    {[Survived |-> 0] @@ Passenger(3, NameMr, "male", <<44>>, 1, 0, <<14>>, <<"S">>),
     [Survived |-> 1] @@ Passenger(1, NameMlle, "female", <<120>>, 0, 1, <<160>>, <<"C">>)}

\* the rows their evaluation files are drawn from
TwoRunTestPassengers ==
    {Passenger(3, NameMr, "male", NaN, 0, 0, NaN, <<"S">>),
     Passenger(1, NameMiss, "female", NaN, 1, 1, <<60>>, <<"C">>),
     Passenger(3, NameMr, "male", <<80>>, 2, 0, <<100>>, NaN)}

\* both calls of update_features have returned and the run is over
RunEnded == pc[1] = "main" /\ pc[2] \in {"done", "raised"}

\* The script is started again, on the training file of the first run and on
\* another evaluation file; what the first run computed is kept for
\* comparison.
Restart ==
    /\ RunEnded
    /\ ~first_run.ended
    /\ first_run' =
           [ended          |-> TRUE,
            train_file     |-> first_run.train_file,
            raw_test_df    |-> raw_test_df,
            test_df        |-> test_df,
            train_features |-> train_features,
            reduced_cols   |-> reduced_cols,
            guess_ages     |-> guess_ages,
            freq_port      |-> freq_port,
            fare_median    |-> fare_median]
    /\ raw_train_df' = first_run.train_file
    /\ train_df' = raw_train_df'
    /\ \E te \in SeqsUpTo(TwoRunTestPassengers, MaxTest) :
           raw_test_df' =
               ReadCsv(TestColumns, te,
                       TestIds(Len(first_run.train_file.rows), Len(te)))
    /\ test_df' = raw_test_df'
    /\ train_features' = NoFrame
    /\ test_features' = NoFrame
    /\ reduced_cols' = <<>>
    /\ train_reduced_features' = NoFrame
    /\ test_reduced_features' = NoFrame
    /\ submission' = <<>>
    /\ pc' = <<"train", "add_title_src">>
    /\ guess_ages' = <<>>
    /\ freq_port' = NaN
    /\ fare_median' = NaN
    /\ UNCHANGED evars

InitTwoRuns ==
    /\ InitFrom(SeqsUpTo(TwoRunTrainPassengers, MaxTrain),
                SeqsUpTo(TwoRunTestPassengers, MaxTest))
    /\ first_run = [ended |-> FALSE, train_file |-> raw_train_df]

NextTwoRuns == Next \/ Restart

SpecTwoRuns == InitTwoRuns /\ [][NextTwoRuns]_vars

\* two cleaned rows have the same sex, class and title
SameGroup(r, q) ==
    /\ r["Sex"] = q["Sex"]
    /\ r["Pclass"] = q["Pclass"]
    /\ r["Title"] = q["Title"]

\* C4: for one training file and any two evaluation files, the age medians,
\* the most frequent port, the median fare, the training feature matrix and
\* the retained columns are the same in both runs, and two evaluation records
\* of the same sex, class and title that miss a value get the same value.
C4_NoLeakFromEvaluationData ==
    (first_run.ended /\ pc[1] = "main") =>
        /\ guess_ages = first_run.guess_ages
        /\ freq_port = first_run.freq_port
        /\ fare_median = first_run.fare_median
        /\ train_features = first_run.train_features
        /\ (reduced_cols # <<>> /\ first_run.reduced_cols # <<>>)
               => reduced_cols = first_run.reduced_cols
        /\ \A i \in DOMAIN test_df.rows :
             \A j \in DOMAIN first_run.test_df.rows :
               SameGroup(test_df.rows[i], first_run.test_df.rows[j]) =>
                 \A col \in {"Age", "Fare", "Embarked"} :
                   (/\ isnull(raw_test_df.rows[i][col])
                    /\ isnull(first_run.raw_test_df.rows[j][col]))
                   => test_df.rows[i][col] = first_run.test_df.rows[j][col]

\* the second run has ended on another evaluation file than the first; both
\* files hold a record without a fare next to records with different fares,
\* and both runs retained columns
C4_Witness ==
    /\ first_run.ended
    /\ RunEnded
    /\ reduced_cols # <<>>
    /\ first_run.reduced_cols # <<>>
    /\ raw_test_df # first_run.raw_test_df
    /\ \E i \in DOMAIN test_df.rows :
         \E j \in DOMAIN first_run.test_df.rows :
           /\ isnull(raw_test_df.rows[i]["Fare"])
           /\ isnull(first_run.raw_test_df.rows[j]["Fare"])
           /\ ~isnull(test_df.rows[i]["Fare"])
           /\ \E k \in DOMAIN test_df.rows :
                \E l \in DOMAIN first_run.test_df.rows :
                  /\ ~isnull(raw_test_df.rows[k]["Fare"])
                  /\ ~isnull(first_run.raw_test_df.rows[l]["Fare"])
                  /\ raw_test_df.rows[k]["Fare"] #
                         first_run.raw_test_df.rows[l]["Fare"]

-----------------------------------------------------------------------------
(* evaluate_models on its own *)

MaxFold == 3

\* gen_models, in either order of the map
ModelMaps == {<<"SVM", "Random forest">>, <<"Random forest", "SVM">>}

\* the label columns evaluate_models is tried on
LabelColumns ==
    {<<0, 1, 0, 1>>, <<1, 1, 0, 1, 0>>, <<1, 0, 1, 1, 1, 0>>, <<1, 0>>}

\* the script is at line 373, evaluate_models at its first statement
InitEval ==
    /\ raw_train_df = NoFrame
    /\ raw_test_df = NoFrame
    /\ train_df = NoFrame
    /\ test_df = NoFrame
    /\ train_features = NoFrame
    /\ test_features = NoFrame
    /\ reduced_cols = <<>>
    /\ train_reduced_features = NoFrame
    /\ test_reduced_features = NoFrame
    /\ submission = <<>>
    /\ pc = <<"main", "evaluate_models">>
    /\ guess_ages = <<>>
    /\ freq_port = NaN
    /\ fare_median = NaN
    /\ first_run = NoRun
    /\ models \in ModelMaps
    /\ nfold \in 2 .. MaxFold
    /\ labels \in LabelColumns
    /\ model_i = 0
    /\ fold = 0
    /\ total_score = <<0, 1>>
    /\ model_scores = <<>>
    /\ calls = <<>>
    /\ printed = <<>>
    /\ epc = "start"

SpecEval == InitEval /\ [][NextEval]_vars

-----------------------------------------------------------------------------
(* Properties of evaluate_models *)

\* the calls made on model m, in order
CallsOn(m) == SelectSeq(calls, LAMBDA c : c.model = m)

\* the fold accuracies printed for model m, in order
FoldLines(m) ==
    SelectSeq(printed, LAMBDA l : l.line = "fold" /\ l.model = m)

\* the lines of the final report, in order
MeanLines == SelectSeq(printed, LAMBDA l : l.line = "mean")

RECURSIVE SumOfScores(_)
SumOfScores(lines) ==
    IF lines = <<>> THEN <<0, 1>>
    ELSE FracAdd(SumOfScores(Tail(lines)), Head(lines).score)

\* model m went through nfold rounds, each a fit on the rows outside the
\* held-out fold followed by a score on the held-out fold
AllRounds(m) ==
    /\ Len(CallsOn(m)) = 2 * nfold
    /\ Len(FoldLines(m)) = nfold
    /\ \A k \in 1 .. nfold :
          /\ CallsOn(m)[2 * k - 1].op = "fit"
          /\ CallsOn(m)[2 * k].op = "score"
          /\ CallsOn(m)[2 * k].rows = TestIndex(labels, nfold, k)
          /\ CallsOn(m)[2 * k - 1].rows =
                 DOMAIN labels \ CallsOn(m)[2 * k].rows
          /\ ~CallsOn(m)[2 * k - 1].raised

\* the report holds the mean of model m
Reported(m) == \E p \in DOMAIN MeanLines : MeanLines[p].model = m

\* C7: when a candidate fails to fit on some fold, the evaluation of the
\* other candidates is not aborted: each of them still runs all its K folds
\* and has its mean accuracy reported.
C7_FailureDoesNotAbort ==
    (epc \in {"done", "raised"} /\ \E k \in DOMAIN calls : calls[k].raised)
    => \A m \in Range(models) :
           (\A k \in DOMAIN calls : calls[k].raised => calls[k].model # m)
           => AllRounds(m) /\ Reported(m)

\* C9: every candidate goes through exactly K rounds, each a fit on the other
\* K - 1 folds and then a score on the held-out fold; the value recorded for
\* it is the sum of its K fold accuracies divided by K; the candidates are
\* reported in order of descending mean accuracy.
C9_RoundsMeanAndRanking ==
    epc = "done" =>
        /\ \A m \in Range(models) :
              /\ AllRounds(m)
              /\ \E k \in DOMAIN model_scores :
                    /\ model_scores[k].model = m
                    /\ \A j \in DOMAIN model_scores :
                           model_scores[j].model = m => j = k
                    /\ FracEq(model_scores[k].score,
                              FracDiv(SumOfScores(FoldLines(m)), nfold))
                    /\ \E p \in DOMAIN MeanLines :
                           /\ MeanLines[p].model = m
                           /\ MeanLines[p].score = model_scores[k].score
        /\ Len(MeanLines) = Len(models)
        /\ \A p, q \in DOMAIN MeanLines :
               p < q => ~FracLess(MeanLines[p].score, MeanLines[q].score)

\* three folds were run for both models, and the model evaluated second has
\* the higher mean and is reported first
C9_Witness ==
    /\ epc = "done"
    /\ nfold = 3
    /\ MeanLines[1].model = models[2]
    /\ FracLess(MeanLines[2].score, MeanLines[1].score)
    /\ FracLess(<<0, 1>>, MeanLines[2].score)

=============================================================================
